---- MODULE Spec2Model ----
(***************************************************************************)
(* State-machine model of src/server.js: a Socket.io relay.  Sockets join  *)
(* rooms named `<prefix>:${eventId}` and every application event is        *)
(* re-emitted with io.to(room).emit(name, data) to a fixed list of rooms.  *)
(* One action models one run-to-completion listener invocation.            *)
(***************************************************************************)
EXTENDS Integers, Sequences, FiniteSets, TLC

\* ------------------------------------------------------------------ bounds
MaxJoins == 2     \* distinct join requests outstanding over all live sockets

\* The sockets of the model: two clients of the server.
Conns == {1, 2}

\* -------------------------------------------------------------- JS values
\* A JavaScript value as it arrives off the wire: a type tag, the lexeme of
\* a primitive, and the own properties of an object (<<>> for none).
JS(t, s, f) == [t |-> t, s |-> s, f |-> f]
Undefined == JS("undefined", "", <<>>)
Str(s) == JS("string", s, <<>>)
Num(s) == JS("number", s, <<>>)
Obj(f) == JS("object", "", f)

\* `${v}` : the string a template literal produces for a value.
StringOf(v) ==
  CASE v.t = "undefined" -> "undefined"
    [] v.t = "null"      -> "null"
    [] v.t = "string"    -> v.s
    [] v.t = "number"    -> v.s
    [] OTHER             -> "[object Object]"

\* data.k : property read; a missing property reads as undefined.
Get(data, k) == IF k \in DOMAIN data.f THEN data.f[k] ELSE Undefined

\* data.k (or destructuring) on undefined/null raises a TypeError.
Nullish(data) == data.t \in {"undefined", "null"}

\* Arguments clients send.  The number 1 and the string "1" are different
\* identifiers with the same rendering; Undefined is a request without one.
EventArgs == {Num("1"), Str("evt2"), Undefined}
RoleArgs == {Str("1")}
JudgePayloads ==
  {Undefined, Obj([eventId |-> Str("1"), judgeId |-> Str("j1")])}
Payloads ==
  {Undefined,
   Obj([eventId |-> Str("1"), performanceId |-> Str("p1")]),
   Obj([performanceId |-> Str("p1")])}

\* ------------------------------------------------------------------ state
VARIABLES
  alive,      \* the process is running (FALSE after process.exit(1))
  connected,  \* sockets whose 'connection' callback ran and that are open
  rooms,      \* rooms[c]: names of the rooms socket c is in (adapter table)
  sdata,      \* sdata[c]: socket.data of c (role, eventId, judgeId)
  issued,     \* issued[c]: join requests c has sent since it connected
  last,       \* the inbound event handled last: name, sender, payload,
              \* and whether it was a join request already in issued
  sent,       \* the emits of that listener, in order: room, name, payload
  recv        \* recv[c]: what that listener's emits delivered to socket c

vars == <<alive, connected, rooms, sdata, issued, last, sent, recv>>

NoData == [role |-> Undefined, eventId |-> Undefined, judgeId |-> Undefined]
In(name, c, data) == [name |-> name, from |-> c, data |-> data, again |-> FALSE]
Nothing == [c \in Conns |-> <<>>]

Init ==
  /\ alive = TRUE
  /\ connected = {}
  /\ rooms = [c \in Conns |-> {}]
  /\ sdata = [c \in Conns |-> NoData]
  /\ issued = [c \in Conns |-> {}]
  /\ last = In("listen", 0, Undefined)
  /\ sent = <<>>
  /\ recv = Nothing

\* ------------------------------------------------------- transport helpers
\* Variant: the identifier is left out of the room name.
RoomNameNoId(prefix, eventId) == prefix \o ":"

\* `<prefix>:${eventId}` : the room name a template literal builds.
RoomName(prefix, eventId) == prefix \o ":" \o StringOf(eventId)

\* Variants: a join that replaces the socket's rooms; a join that leaves a
\* room the socket is already in.
SocketJoinReplace(c, room) == [rooms EXCEPT ![c] = {room}]
SocketJoinToggle(c, room) ==
  [rooms EXCEPT ![c] = IF room \in @ THEN @ \ {room} ELSE @ \cup {room}]

\* socket.join(room)
SocketJoin(c, room) == [rooms EXCEPT ![c] = @ \cup {room}]

\* Variant: the fault is logged and the process carries on.
UncaughtExceptionLogOnly ==
  /\ sent' = <<>>
  /\ recv' = Nothing
  /\ UNCHANGED <<alive, connected, rooms, sdata, issued>>

\* process.on('uncaughtException'): log, then process.exit(1).  Every socket
\* and the whole adapter table go with the process.
UncaughtException ==
  /\ alive' = FALSE
  /\ connected' = {}
  /\ rooms' = [c \in Conns |-> {}]
  /\ sdata' = [c \in Conns |-> NoData]
  /\ issued' = [c \in Conns |-> {}]
  /\ sent' = <<>>
  /\ recv' = Nothing

\* Number of join requests outstanding over all live sockets.
Outstanding == Cardinality(UNION {{k} \X issued[k] : k \in Conns})
Req(name, arg) == [name |-> name, arg |-> arg]
MayJoin(c, req) == req \in issued[c] \/ Outstanding < MaxJoins

\* ---------------------------------------------------------- io.on('connection')
Connection(c) ==
  /\ alive /\ c \notin connected
  /\ connected' = connected \cup {c}
  /\ last' = In("connection", c, Undefined)
  /\ sent' = <<>> /\ recv' = Nothing
  /\ UNCHANGED <<alive, rooms, sdata, issued>>

\* Variant: the join is acknowledged to the joining socket.
JoinEventAck(c, eventId) ==
  /\ alive /\ c \in connected
  /\ MayJoin(c, Req("join:event", eventId))
  /\ rooms' = SocketJoin(c, RoomName("event", eventId))
  /\ issued' = [issued EXCEPT ![c] = @ \cup {Req("join:event", eventId)}]
  /\ last' = [In("join:event", c, eventId) EXCEPT
                !.again = Req("join:event", eventId) \in issued[c]]
  /\ sent' = <<>>
  /\ recv' = [Nothing EXCEPT ![c] = <<[name |-> "joined", data |-> eventId]>>]
  /\ UNCHANGED <<alive, connected, sdata>>

\* socket.on('join:event', (eventId) => socket.join(`event:${eventId}`))
JoinEvent(c, eventId) ==
  /\ alive /\ c \in connected
  /\ MayJoin(c, Req("join:event", eventId))
  /\ rooms' = SocketJoin(c, RoomName("event", eventId))
  /\ issued' = [issued EXCEPT ![c] = @ \cup {Req("join:event", eventId)}]
  /\ last' = [In("join:event", c, eventId) EXCEPT
                !.again = Req("join:event", eventId) \in issued[c]]
  /\ sent' = <<>> /\ recv' = Nothing
  /\ UNCHANGED <<alive, connected, sdata>>

\* socket.on('join:judge', ({ eventId, judgeId }) => ...): destructuring a
\* missing payload throws before anything is joined.
JoinJudge(c, data) ==
  /\ alive /\ c \in connected
  /\ last' = [In("join:judge", c, data) EXCEPT
                !.again = Req("join:judge", data) \in issued[c]]
  /\ IF Nullish(data)
       THEN UncaughtException
       ELSE /\ MayJoin(c, Req("join:judge", data))
            /\ rooms' = SocketJoin(c, RoomName("judges", Get(data, "eventId")))
            /\ sdata' = [sdata EXCEPT ![c].judgeId = Get(data, "judgeId"),
                                      ![c].eventId = Get(data, "eventId")]
            /\ issued' = [issued EXCEPT ![c] = @ \cup {Req("join:judge", data)}]
            /\ sent' = <<>> /\ recv' = Nothing
            /\ UNCHANGED <<alive, connected>>

\* The five role joins share one shape: join `<role>:${eventId}`, then set
\* socket.data.role and socket.data.eventId.
JoinRole(c, name, role, eventId) ==
  /\ alive /\ c \in connected
  /\ MayJoin(c, Req(name, eventId))
  /\ rooms' = SocketJoin(c, RoomName(role, eventId))
  /\ sdata' = [sdata EXCEPT ![c].role = Str(role), ![c].eventId = eventId]
  /\ issued' = [issued EXCEPT ![c] = @ \cup {Req(name, eventId)}]
  /\ last' = [In(name, c, eventId) EXCEPT
                !.again = Req(name, eventId) \in issued[c]]
  /\ sent' = <<>> /\ recv' = Nothing
  /\ UNCHANGED <<alive, connected>>

JoinSound(c, eventId) == JoinRole(c, "join:sound", "sound", eventId)
JoinBackstage(c, eventId) == JoinRole(c, "join:backstage", "backstage", eventId)
JoinAnnouncer(c, eventId) == JoinRole(c, "join:announcer", "announcer", eventId)
JoinRegistration(c, eventId) == JoinRole(c, "join:registration", "registration", eventId)
JoinMedia(c, eventId) == JoinRole(c, "join:media", "media", eventId)

\* ------------------------------------------------------------- dispatch
\* io.to(room).emit(name, payload)
Emit(room, name, payload) == [room |-> room, name |-> name, data |-> payload]

\* What a run of emits puts on socket c's wire: one packet per emit whose
\* room c is in, in emit order.
Delivered(c, emits) ==
  LET hit == SelectSeq(emits, LAMBDA e : e.room \in rooms[c])
  IN  [i \in 1..Len(hit) |-> [name |-> hit[i].name, data |-> hit[i].data]]

\* Variants: a list that misses a room; a list with every room.
ReorderRoomsNoMedia == <<"event", "judges", "sound", "announcer", "registration">>
PresenceRoomsAll == <<"event", "judges", "sound", "backstage", "announcer", "registration", "media">>

\* Variants: the announcer room added to the performance:announced list; the
\* backstage room added to the event:control list.
AnnouncedRoomsWithAnnouncer == <<"event", "backstage", "judges", "sound", "announcer", "registration", "media">>
ControlRoomsWithBackstage == <<"event", "judges", "sound", "backstage", "announcer", "registration", "media">>

\* The destination lists of the eight relaying listeners, in source order.
ReorderRooms == <<"event", "judges", "sound", "announcer", "registration", "media">>
StatusRooms == <<"event", "judges", "sound", "backstage", "announcer", "registration", "media">>
MusicCueRooms == <<"event", "judges", "sound", "backstage", "announcer", "registration", "media">>
MusicUpdatedRooms == <<"event", "judges", "sound", "backstage", "announcer", "registration", "media">>
VideoUpdatedRooms == <<"event", "judges", "sound", "backstage", "announcer", "registration", "media">>
ControlRooms == <<"event", "judges", "sound", "announcer", "registration", "media">>
PresenceRooms == <<"event", "backstage", "announcer", "registration", "media">>
AnnouncedRooms == <<"event", "backstage", "judges", "sound", "registration", "media">>

\* Variant: the payload is rebuilt from the field the listener reads.
ForwardedIdOnly(data) == Obj([eventId |-> Get(data, "eventId")])

\* The payload each relaying listener hands to emit: `data` itself.
Forwarded(data) == data

\* Variant: socket.to(room).emit in place of io.to(room).emit, which leaves
\* the sending socket out.
RelaySocketTo(c, name, prefixes, data) ==
  /\ alive /\ c \in connected
  /\ last' = In(name, c, data)
  /\ IF Nullish(data)
       THEN UncaughtException
       ELSE LET emits == [i \in 1..Len(prefixes) |->
                            Emit(RoomName(prefixes[i], Get(data, "eventId")),
                                 name, Forwarded(data))]
            IN  /\ sent' = emits
                /\ recv' = [k \in Conns |->
                             IF k = c THEN <<>> ELSE Delivered(k, emits)]
                /\ UNCHANGED <<alive, connected, rooms, sdata, issued>>

\* Variant: the listener yields after its first emit, and a socket
\* disconnects before the remaining emits are made.
RelayYield(c, name, prefixes, data) ==
  /\ alive /\ c \in connected
  /\ last' = In(name, c, data)
  /\ IF Nullish(data)
       THEN UncaughtException
       ELSE LET emits == [i \in 1..Len(prefixes) |->
                            Emit(RoomName(prefixes[i], Get(data, "eventId")),
                                 name, Forwarded(data))]
            IN  \E k \in connected :
                  /\ sent' = emits
                  /\ recv' = [j \in Conns |->
                               IF j = k THEN Delivered(k, SubSeq(emits, 1, 1))
                                        ELSE Delivered(j, emits)]
                  /\ connected' = connected \ {k}
                  /\ rooms' = [rooms EXCEPT ![k] = {}]
                  /\ sdata' = [sdata EXCEPT ![k] = NoData]
                  /\ issued' = [issued EXCEPT ![k] = {}]
                  /\ UNCHANGED alive

\* The body of a relaying listener: the log line reads data.<field>, which
\* throws on a missing payload; then one emit per listed room.
Relay(c, name, prefixes, data) ==
  /\ alive /\ c \in connected
  /\ last' = In(name, c, data)
  /\ IF Nullish(data)
       THEN UncaughtException
       ELSE LET emits == [i \in 1..Len(prefixes) |->
                            Emit(RoomName(prefixes[i], Get(data, "eventId")),
                                 name, Forwarded(data))]
            IN  /\ sent' = emits
                /\ recv' = [k \in Conns |-> Delivered(k, emits)]
                /\ UNCHANGED <<alive, connected, rooms, sdata, issued>>

PerformanceReorder(c, data) == Relay(c, "performance:reorder", ReorderRooms, data)
PerformanceStatus(c, data) == Relay(c, "performance:status", StatusRooms, data)
PerformanceMusicCue(c, data) == Relay(c, "performance:music_cue", MusicCueRooms, data)
EntryMusicUpdated(c, data) == Relay(c, "entry:music_updated", MusicUpdatedRooms, data)
EntryVideoUpdated(c, data) == Relay(c, "entry:video_updated", VideoUpdatedRooms, data)
EventControl(c, data) == Relay(c, "event:control", ControlRooms, data)
PresenceUpdate(c, data) == Relay(c, "presence:update", PresenceRooms, data)
PerformanceAnnounced(c, data) == Relay(c, "performance:announced", AnnouncedRooms, data)

\* Variant: the inbound payload is passed on instead of a fresh object.
NotificationEcho(data) == data

\* socket.on('test:notification'): console.log takes any payload, then
\* data.eventId throws on a missing one; a fresh object goes to event:<id>.
Notification(data) ==
  Obj([type |-> Str("info"),
       message |-> Str("Test notification from backstage!"),
       eventId |-> Get(data, "eventId")])

TestNotification(c, data) ==
  /\ alive /\ c \in connected
  /\ last' = In("test:notification", c, data)
  /\ IF Nullish(data)
       THEN UncaughtException
       ELSE LET emits == <<Emit(RoomName("event", Get(data, "eventId")),
                                "notification", Notification(data))>>
            IN  /\ sent' = emits
                /\ recv' = [k \in Conns |-> Delivered(k, emits)]
                /\ UNCHANGED <<alive, connected, rooms, sdata, issued>>

\* Variant: a catch-all listener that relays whatever arrives.
UnknownEventRelay(c, name, data) == Relay(c, name, StatusRooms, data)

\* An event name no socket.on registers a listener for: nothing runs.
UnknownNames == {"leave:event", "notification"}
UnknownArgs == {Str("1")}
UnknownEvent(c, name, data) ==
  /\ alive /\ c \in connected
  /\ last' = In(name, c, data)
  /\ sent' = <<>> /\ recv' = Nothing
  /\ UNCHANGED <<alive, connected, rooms, sdata, issued>>

\* Variant: the socket closes but stays in its rooms.
DisconnectKeepRooms(c) ==
  /\ alive /\ c \in connected
  /\ connected' = connected \ {c}
  /\ issued' = [issued EXCEPT ![c] = {}]
  /\ last' = In("disconnect", c, Undefined)
  /\ sent' = <<>> /\ recv' = Nothing
  /\ UNCHANGED <<alive, rooms, sdata>>

\* socket.on('disconnect'): the listener only logs; the transport has taken
\* the socket out of every room.
Disconnect(c) ==
  /\ alive /\ c \in connected
  /\ connected' = connected \ {c}
  /\ rooms' = [rooms EXCEPT ![c] = {}]
  /\ sdata' = [sdata EXCEPT ![c] = NoData]
  /\ issued' = [issued EXCEPT ![c] = {}]
  /\ last' = In("disconnect", c, Undefined)
  /\ sent' = <<>> /\ recv' = Nothing
  /\ UNCHANGED alive

\* socket.on('error'): the listener only logs; the socket stays open.
SocketError(c) ==
  /\ alive /\ c \in connected
  /\ last' = In("error", c, Undefined)
  /\ sent' = <<>> /\ recv' = Nothing
  /\ UNCHANGED <<alive, connected, rooms, sdata, issued>>

\* process.on('unhandledRejection'): the listener only logs.
UnhandledRejection ==
  /\ alive
  /\ last' = In("unhandledRejection", 0, Undefined)
  /\ sent' = <<>> /\ recv' = Nothing
  /\ UNCHANGED <<alive, connected, rooms, sdata, issued>>

Next ==
  \/ \E c \in Conns : Connection(c)
  \/ \E c \in Conns, e \in EventArgs : JoinEvent(c, e)
  \/ \E c \in Conns, d \in JudgePayloads : JoinJudge(c, d)
  \/ \E c \in Conns, e \in RoleArgs : JoinSound(c, e)
  \/ \E c \in Conns, e \in RoleArgs : JoinBackstage(c, e)
  \/ \E c \in Conns, e \in RoleArgs : JoinAnnouncer(c, e)
  \/ \E c \in Conns, e \in RoleArgs : JoinRegistration(c, e)
  \/ \E c \in Conns, e \in RoleArgs : JoinMedia(c, e)
  \/ \E c \in Conns, d \in Payloads : PerformanceReorder(c, d)
  \/ \E c \in Conns, d \in Payloads : PerformanceStatus(c, d)
  \/ \E c \in Conns, d \in Payloads : PerformanceMusicCue(c, d)
  \/ \E c \in Conns, d \in Payloads : EntryMusicUpdated(c, d)
  \/ \E c \in Conns, d \in Payloads : EntryVideoUpdated(c, d)
  \/ \E c \in Conns, d \in Payloads : EventControl(c, d)
  \/ \E c \in Conns, d \in Payloads : PresenceUpdate(c, d)
  \/ \E c \in Conns, d \in Payloads : PerformanceAnnounced(c, d)
  \/ \E c \in Conns, d \in Payloads : TestNotification(c, d)
  \/ \E c \in Conns, n \in UnknownNames, d \in UnknownArgs : UnknownEvent(c, n, d)
  \/ \E c \in Conns : Disconnect(c)
  \/ \E c \in Conns : SocketError(c)
  \/ UnhandledRejection

Spec == Init /\ [][Next]_vars

\* ------------------------------------------------- vocabulary of the claims
JoinNames ==
  {"join:event", "join:judge", "join:sound", "join:backstage",
   "join:announcer", "join:registration", "join:media"}
TableNames ==
  {"performance:reorder", "performance:status", "performance:music_cue",
   "entry:music_updated", "entry:video_updated", "event:control",
   "presence:update", "performance:announced"}
DispatchNames == TableNames \cup {"test:notification"}

\* The dispatch table as the specification prints it.
Listed(name) ==
  CASE name \in {"performance:reorder", "event:control"} ->
         {"event", "judges", "sound", "announcer", "registration", "media"}
    [] name = "presence:update" ->
         {"event", "backstage", "announcer", "registration", "media"}
    [] name = "performance:announced" ->
         {"event", "backstage", "judges", "sound", "registration", "media"}
    [] OTHER ->
         {"event", "judges", "sound", "backstage", "announcer", "registration", "media"}

\* The room prefix each join request names.
JoinPrefix(name) ==
  CASE name = "join:event" -> "event"
    [] name = "join:judge" -> "judges"
    [] name = "join:sound" -> "sound"
    [] name = "join:backstage" -> "backstage"
    [] name = "join:announcer" -> "announcer"
    [] name = "join:registration" -> "registration"
    [] OTHER -> "media"

\* The event identifier a join request carries, and the room it asks for.
IdOfReq(r) == IF r.name = "join:judge" THEN Get(r.arg, "eventId") ELSE r.arg
RoomOfReq(r) == JoinPrefix(r.name) \o ":" \o StringOf(IdOfReq(r))
IdsOf(c) == {IdOfReq(r) : r \in issued[c]}

HasEventId(data) == "eventId" \in DOMAIN data.f
Packet(name, data) == [name |-> name, data |-> data]
Got(c, pkt) == \E i \in 1..Len(recv[c]) : recv[c][i] = pkt
SentRooms == {sent[i].room : i \in 1..Len(sent)}

\* ------------------------------------------------------------------ C1
\* C1: a table event with eventId = E, sent by any socket, is delivered to
\* every socket that is in a room the table lists for that event at E.
C1_FanOutComplete ==
  (last.name \in TableNames /\ HasEventId(last.data)) =>
    \A c \in Conns, p \in Listed(last.name) :
      (p \o ":" \o StringOf(last.data.f.eventId)) \in rooms[c]
        => Got(c, Packet(last.name, last.data))

\* A socket other than the sender is in a listed room and got the packet.
C1_Witness ==
  /\ last.name \in TableNames /\ HasEventId(last.data)
  /\ \E c \in Conns, p \in Listed(last.name) :
       /\ c # last.from
       /\ (p \o ":" \o StringOf(last.data.f.eventId)) \in rooms[c]
       /\ Got(c, Packet(last.name, last.data))

\* ------------------------------------------------------------------ C2
\* C2: a socket none of whose joins names the identifier of a dispatched
\* message gets nothing from it.  Identifiers are told apart as the room
\* names tell them apart, by their text: the number 1 and the string "1"
\* name the same event.
C2_Isolation ==
  \A c \in Conns :
    (/\ c \in connected /\ rooms[c] # {}
     /\ last.name \in DispatchNames /\ HasEventId(last.data)
     /\ \A e1 \in IdsOf(c) : StringOf(e1) # StringOf(last.data.f.eventId))
    => recv[c] = <<>>

\* A socket joined only for "evt2" got nothing from a message for "1" that
\* reached a member of a room of "1".
C2_Witness ==
  /\ last.name \in DispatchNames /\ HasEventId(last.data)
  /\ \E c, k \in Conns :
       /\ c \in connected /\ rooms[c] # {}
       /\ \A e1 \in IdsOf(c) : StringOf(e1) # StringOf(last.data.f.eventId)
       /\ recv[c] = <<>>
       /\ recv[k] # <<>>

\* ------------------------------------------------------------------ C3
\* C3: a socket is in room R exactly when it is still connected and sent the
\* join request for R's prefix and identifier on this connection; and it is
\* handed one packet for each emit to a room it is in, and nothing else.
C3_Membership ==
  \A c \in Conns :
    /\ rooms[c] = IF c \in connected
                    THEN {RoomOfReq(r) : r \in issued[c]}
                    ELSE {}
    /\ Len(recv[c]) =
         Cardinality({i \in 1..Len(sent) : sent[i].room \in rooms[c]})
    /\ \A i \in 1..Len(sent) :
         sent[i].room \in rooms[c] => Got(c, Packet(sent[i].name, sent[i].data))

\* A socket has just disconnected and is in no room while the other is in
\* the room it joined.
C3_Witness ==
  /\ last.name = "disconnect" /\ rooms[last.from] = {}
  /\ \E c \in connected : \E r \in issued[c] : rooms[c] = {RoomOfReq(r)}

\* ------------------------------------------------------------------ C4
\* C4: every emit of a table event carries the inbound event name and the
\* inbound payload, unchanged, for every destination room.
C4_Verbatim ==
  last.name \in TableNames =>
    /\ \A i \in 1..Len(sent) :
         sent[i].name = last.name /\ sent[i].data = last.data
    /\ \A c \in Conns : \A i \in 1..Len(recv[c]) :
         recv[c][i] = Packet(last.name, last.data)

\* A performance:status payload with a second field went to seven rooms and
\* reached a socket.
C4_Witness ==
  /\ last.name = "performance:status"
  /\ "performanceId" \in DOMAIN last.data.f
  /\ Len(sent) = 7
  /\ \E c \in Conns : Got(c, Packet("performance:status", last.data))

\* ------------------------------------------------------------------ C5
\* C5: whatever payload arrives on a known event name, the listener
\* completes and the process keeps running.
C5_NoCrash ==
  last.name \in (DispatchNames \cup JoinNames) => alive

\* ------------------------------------------------------------------ C6
\* C6: a socket that has disconnected is in no room, and no dispatch that
\* follows hands it anything, whatever rooms it had joined.
C6_DisconnectCleanup ==
  \A c \in Conns : c \notin connected => (rooms[c] = {} /\ recv[c] = <<>>)

\* While one socket is disconnected, a performance:status for "1" was
\* emitted to judges:1, where the other socket received it.
C6_Witness ==
  \E c, k \in Conns :
    /\ c \notin connected /\ recv[c] = <<>>
    /\ last.name = "performance:status" /\ last.from = k
    /\ "judges:1" \in SentRooms /\ "judges:1" \in rooms[k]
    /\ Got(k, Packet("performance:status", last.data))

\* ------------------------------------------------------------------ C7
\* C7: a join request a socket has already sent on this connection leaves
\* every socket's rooms as they are.
C7_JoinIdempotent ==
  [][(last'.name \in JoinNames /\ last'.again) => rooms' = rooms]_vars

\* A join request was repeated by a socket that is in the room it asks for.
C7_Witness ==
  /\ last.name \in JoinNames /\ last.again
  /\ RoomOfReq(Req(last.name, last.data)) \in rooms[last.from]

C9_TestNotification ==
  (last.name = "test:notification" /\ HasEventId(last.data)) =>
    LET E == last.data.f.eventId
        body == Obj([type |-> Str("info"),
                     message |-> Str("Test notification from backstage!"),
                     eventId |-> E])
        room == "event:" \o StringOf(E)
    IN  /\ sent = <<[room |-> room, name |-> "notification", data |-> body]>>
        /\ \A c \in Conns :
             recv[c] = IF room \in rooms[c]
                         THEN <<Packet("notification", body)>>
                         ELSE <<>>

\* A member of event:1 got the notification while a socket in role rooms of
\* "1" only got nothing.
C9_Witness ==
  /\ last.name = "test:notification" /\ HasEventId(last.data)
  /\ \E c, k \in Conns :
       /\ "event:1" \in rooms[c] /\ Len(recv[c]) = 1
       /\ rooms[k] # {} /\ "event:1" \notin rooms[k]
       /\ \A r \in issued[k] : StringOf(IdOfReq(r)) = "1"
       /\ recv[k] = <<>>

\* ------------------------------------------------------------------ C10
\* C10: an event whose name is neither a table name nor a join name emits
\* nothing, changes no membership and leaves the process running.
C10_UnknownEvent ==
  [][last'.name \in UnknownNames =>
       /\ sent' = <<>> /\ recv' = Nothing
       /\ rooms' = rooms /\ connected' = connected
       /\ alive' = TRUE]_vars

\* An unknown event was handled for a socket that is in a room.
C10_Witness ==
  /\ last.name \in UnknownNames
  /\ last.name \notin (DispatchNames \cup JoinNames)
  /\ rooms[last.from] # {}
  /\ alive /\ sent = <<>>

\* ------------------------------------------------------------------ C11
\* C11: one inbound table event hands every socket at most one copy of the
\* rebroadcast, whatever rooms the socket is in.
C11_AtMostOnce ==
  last.name \in TableNames => \A c \in Conns : Len(recv[c]) <= 1

\* ------------------------------------------------------------------ C12
\* C12: the rooms of a live socket are the union of the rooms of all the
\* joins it sent, whatever their roles and identifiers, and it is handed a
\* packet for every emit to any of them; its socket.data holds one role and
\* one eventId only, those of the last join that wrote them.
RoleJoinNames == JoinNames \ {"join:event", "join:judge"}

C12_NoMutualExclusion ==
  \A c \in connected :
    /\ rooms[c] = {RoomOfReq(r) : r \in issued[c]}
    /\ \A i \in 1..Len(sent) :
         sent[i].room \in rooms[c] => Got(c, Packet(sent[i].name, sent[i].data))
    /\ (last.name \in RoleJoinNames /\ last.from = c) =>
         /\ sdata[c].role = Str(JoinPrefix(last.name))
         /\ sdata[c].eventId = last.data
    /\ (last.name = "join:judge" /\ last.from = c) =>
         /\ sdata[c].eventId = Get(last.data, "eventId")
         /\ sdata[c].judgeId = Get(last.data, "judgeId")
    /\ sdata[c].role \in
         {Undefined} \cup {Str(JoinPrefix(r.name)) :
                             r \in {q \in issued[c] : q.name \in RoleJoinNames}}

\* A socket that joined sound:1 and then media:1 is in both rooms, is
\* recorded as media, and got a copy of a performance:status through each.
C12_Witness ==
  /\ last.name = "performance:status" /\ HasEventId(last.data)
  /\ \E c \in connected :
       /\ rooms[c] = {"sound:1", "media:1"}
       /\ sdata[c].role = Str("media")
       /\ Len(recv[c]) = 2

\* ------------------------------------------------------------------ C13
\* C13: performance:announced with eventId = E reaches the members of
\* event:E, backstage:E, judges:E, sound:E, registration:E and media:E and
\* not a socket that is in announcer:E only; every other table event reaches
\* the members of announcer:E.
C13_AnnouncedSkipsAnnouncer ==
  (last.name \in TableNames /\ HasEventId(last.data)) =>
    LET R(p) == p \o ":" \o StringOf(last.data.f.eventId)
        pkt == Packet(last.name, last.data)
    IN  \A c \in Conns :
          IF last.name = "performance:announced"
            THEN /\ rooms[c] \cap {R("event"), R("backstage"), R("judges"),
                                   R("sound"), R("registration"), R("media")} # {}
                      => Got(c, pkt)
                 /\ rooms[c] = {R("announcer")} => recv[c] = <<>>
            ELSE R("announcer") \in rooms[c] => Got(c, pkt)

\* A performance:announced for "1" reached another socket and not the one
\* that is in announcer:1 only.
C13_Witness ==
  /\ last.name = "performance:announced" /\ HasEventId(last.data)
  /\ \E c, k \in Conns :
       /\ rooms[c] = {"announcer:1"} /\ recv[c] = <<>>
       /\ Got(k, Packet("performance:announced", last.data))

C15_MembershipFrame ==
  [][/\ last'.name \in DispatchNames => rooms' = rooms
     /\ last'.name \in JoinNames =>
          rooms' = [rooms EXCEPT ![last'.from] =
                      @ \cup {RoomOfReq(Req(last'.name, last'.data))}]
     /\ last'.name = "disconnect" =>
          rooms' = [rooms EXCEPT ![last'.from] = {}]
     /\ last'.name \notin (DispatchNames \cup JoinNames \cup {"disconnect"}) =>
          rooms' = rooms]_vars

\* ------------------------------------------------------------------ C16
\* C16: only the nine dispatch events make the server emit.  After a
\* connection, a join, a disconnect, a socket error or anything else, no
\* emit was made and no socket was handed a packet.
C16_NoOtherOutbound ==
  last.name \notin DispatchNames => (sent = <<>> /\ recv = Nothing)

\* A socket joined an event room another socket is in, and neither was
\* handed anything.
C16_Witness ==
  /\ last.name = "join:event" /\ alive
  /\ \E k \in connected :
       /\ k # last.from
       /\ rooms[k] \cap rooms[last.from] # {}
  /\ sent = <<>> /\ recv = Nothing

\* ------------------------------------------------------------------ C17
\* C17: a listener runs to completion before anything else is handled.  In
\* the step that fans one inbound event out, no socket joins or leaves, and
\* every emit is resolved against the rooms as they were when the listener
\* began: a socket is handed exactly one packet for each emit to a room it
\* was in, so a socket in two listed rooms cannot get one copy and miss the
\* other.
C17_Atomic ==
  [][(last'.name \in DispatchNames /\ sent' # <<>>) =>
       /\ rooms' = rooms /\ connected' = connected
       /\ \A c \in Conns :
            /\ Len(recv'[c]) =
                 Cardinality({i \in 1..Len(sent') : sent'[i].room \in rooms[c]})
            /\ \A i \in 1..Len(recv'[c]) :
                 \E j \in 1..Len(sent') :
                   /\ sent'[j].room \in rooms[c]
                   /\ recv'[c][i] = Packet(sent'[j].name, sent'[j].data)]_vars

\* A socket in event:1 and judges:1 got both copies of a performance:status.
C17_Witness ==
  /\ last.name = "performance:status" /\ HasEventId(last.data)
  /\ \E c \in connected :
       /\ rooms[c] = {"event:1", "judges:1"}
       /\ Len(recv[c]) = 2

\* ------------------------------------------------------------------ C18
\* C18: the sender of a table event whose payload has no eventId is handed
\* nothing, whatever rooms it and the other sockets are in.
C18_MalformedNoEcho ==
  (last.name \in TableNames /\ ~HasEventId(last.data)) =>
    recv[last.from] = <<>>

\* ------------------------------------------------------------------ C19
\* C19: a listener that throws ends the process: every socket and every room
\* membership is gone, nothing is emitted, and nothing is handled afterwards;
\* the process ends in no other way.  An unhandled rejection leaves the
\* process running with sockets and rooms as they were.
Throws(name, data) ==
  name \in (DispatchNames \cup {"join:judge"}) /\ Nullish(data)

C19_FaultPolicy ==
  [][/\ alive
     /\ Throws(last'.name, last'.data) =>
          /\ ~alive' /\ connected' = {}
          /\ rooms' = [c \in Conns |-> {}]
          /\ sent' = <<>> /\ recv' = Nothing
     /\ ~alive' => Throws(last'.name, last'.data)
     /\ last'.name = "unhandledRejection" =>
          /\ alive'
          /\ connected' = connected /\ rooms' = rooms /\ sdata' = sdata]_vars

\* A performance:status without a payload has ended the process.
C19_Witness ==
  /\ ~alive /\ connected = {}
  /\ last.name = "performance:status" /\ Nullish(last.data)

\* ------------------------------------------------------------------ C20
\* C20: the sender of a table event with eventId = E is handed its own
\* message exactly when it is in a room the table lists for the event at E;
\* and whatever rooms the sender is in, if any, the message reaches every
\* socket that is in a listed room at E.
C20_PublisherNotExcluded ==
  (last.name \in TableNames /\ HasEventId(last.data)) =>
    LET R(p) == p \o ":" \o StringOf(last.data.f.eventId)
        pkt == Packet(last.name, last.data)
        Member(c) == \E p \in Listed(last.name) : R(p) \in rooms[c]
    IN  /\ Got(last.from, pkt) <=> Member(last.from)
        /\ recv[last.from] # <<>> => Member(last.from)
        /\ (rooms[last.from] = {} \/ ~Member(last.from)) =>
             \A k \in Conns : Member(k) => Got(k, pkt)

\* The sender of a performance:reorder for "1" is in a room of "1" and was
\* handed its own message.
C20_Witness ==
  /\ last.name = "performance:reorder" /\ HasEventId(last.data)
  /\ "1" \in {StringOf(e) : e \in IdsOf(last.from)}
  /\ Got(last.from, Packet("performance:reorder", last.data))

====
